---- MODULE Spec2Model ----
(***************************************************************************)
(* Model of main.py: a Tk window whose console pane (ConsoleUi) polls a    *)
(* queue filled by a logging handler (QueueHandler) and renders each       *)
(* record into a ScrolledText widget.                                      *)
(*                                                                         *)
(* Everything runs on the one Tk thread.  pc is the statement the thread   *)
(* is at: "idle" is the event loop (mainloop, or the local event loop of   *)
(* a modal message box when dialog # "none"); any other value is a         *)
(* statement of a callback.  Time is counted in milliseconds and advances  *)
(* only in the event loop (Tick) and in sleep(1) (AllLogSleep).            *)
(***************************************************************************)
EXTENDS Integers, Sequences, FiniteSets, TLC

(* ------------------------------ bounds --------------------------------- *)
\* presses of the buttons that add data: the six log-producing buttons of
\* InputLogUi and the buttons bound to copy_clipboard, taken together
MaxPress == 2

(* ----------------------- constants of the program ---------------------- *)
DEBUG == 10
INFO == 20
WARNING == 30
ERROR == 40
CRITICAL == 50
NOTSET == 0
\* frame.after(100, ...)
PollDelay == 100
\* sleep(1), in milliseconds
SleepMs == 1000

\* what the user may have typed into log_form
Msgs == {"a", "b"}

\* getLevelName of the logging module: record.levelname
getLevelName(levelno) ==
    CASE levelno = CRITICAL -> "CRITICAL"
      [] levelno = ERROR -> "ERROR"
      [] levelno = WARNING -> "WARNING"
      [] levelno = INFO -> "INFO"
      [] levelno = DEBUG -> "DEBUG"
      [] OTHER -> "Level"

\* the five single-level buttons of InputLogUi, by their text
LevelButtons == {"DEBUG", "INFO", "WARN", "ERROR", "CRITICAL"}

\* the level each button's lambda passes to InputLogUi.log
ButtonLevel(b) ==
    CASE b = "DEBUG" -> DEBUG
      [] b = "INFO" -> INFO
      [] b = "WARN" -> WARNING
      [] b = "ERROR" -> ERROR
      [] b = "CRITICAL" -> CRITICAL

\* log_levels in all_log
log_levels == <<DEBUG, INFO, WARNING, ERROR, CRITICAL>>

\* the tags ConsoleUi.__init__ configures on the text widget
tag_config == {"INFO", "DEBUG", "WARNING", "ERROR", "CRITICAL"}

\* faulty variant: basicConfig() without level leaves the root logger at WARNING
RootLevelDefault == WARNING

\* logging.basicConfig(level=logging.DEBUG): the root logger's level
RootLevel == DEBUG

\* logger = logging.getLogger(__name__): its own level is never set
LoggerLevel == NOTSET

\* Logger.getEffectiveLevel for the module's logger: its level if set,
\* else the root's
getEffectiveLevel == IF LoggerLevel # NOTSET THEN LoggerLevel ELSE RootLevel

\* Logger.isEnabledFor
isEnabledFor(levelno) == levelno >= getEffectiveLevel

\* faulty variant: the QueueHandler added to the root logger instead
callHandlersOnRoot(name) == {"queue_handler", "stderr"}

\* the handlers a record logged on `name` reaches (Logger.callHandlers):
\* the module's logger has the QueueHandler and propagates to the root,
\* whose handler is basicConfig's stderr StreamHandler
callHandlers(name) ==
    IF name = "__main__" THEN {"queue_handler", "stderr"} ELSE {"stderr"}

NoRecord == [levelno |-> NOTSET]

VARIABLES
    pc,          \* statement the Tk thread is at
    dialog,      \* modal message box open: "none", "askyesno", "showinfo"
    destroyed,   \* root.destroy() has run
    log_queue,   \* ConsoleUi.log_queue
    text,        \* lines of scrolled_text
    state,       \* scrolled_text's state option
    clipboard,   \* the clipboard contents owned by the application
    timers,      \* pending frame.after callbacks: ms left for each
    record,      \* poll_log_queue's local `record`
    level_i,     \* all_log: index into log_levels
    log_msg,     \* all_log: its argument
    stderr,      \* what has been written by the root handler
    emitted,     \* history: every record QueueHandler.emit was given
    cleared,     \* history: lines removed by clear_log
    logged,      \* history: number of logger.log calls
    presses,     \* history: presses of the log-producing buttons
    copies,      \* history: presses of the copy buttons
    runs,        \* history: runs of poll_log_queue that found a record
    cur          \* history: [button, press] of the press being handled

vars == <<pc, dialog, destroyed, log_queue, text, state, clipboard, timers,
          record, level_i, log_msg, stderr, emitted, cleared, logged,
          presses, copies, runs, cur>>

(* ------------------------------ helpers -------------------------------- *)
RECURSIVE SeqMin(_)
SeqMin(s) ==
    IF Len(s) = 1 THEN s[1]
    ELSE LET m == SeqMin(Tail(s)) IN IF s[1] < m THEN s[1] ELSE m

Max0(n) == IF n < 0 THEN 0 ELSE n

\* d milliseconds pass: every pending timer and every queued record ages
Elapse(d) ==
    /\ timers' = [i \in 1..Len(timers) |-> Max0(timers[i] - d)]
    /\ log_queue' = [i \in 1..Len(log_queue) |->
                        [log_queue[i] EXCEPT !.age = @ + d]]

RemoveAt(s, i) == SubSeq(s, 1, i - 1) \o SubSeq(s, i + 1, Len(s))

(* --------------------------- logging plumbing -------------------------- *)
\* Logger.makeRecord.  created stands for the record's timestamp (the
\* number of the log call, which grows as the clock does); age is the time
\* since the record was made; src is history (the press that caused it).
makeRecord(levelno, msg, n, src) ==
    [levelno |-> levelno, levelname |-> getLevelName(levelno), msg |-> msg,
     created |-> n, age |-> 0, src |-> src]

\* faulty variant: a LifoQueue in place of the Queue
emitLifo(q, r) == <<r>> \o q

\* QueueHandler.emit: self.log_queue.put(record)
emit(q, r) == Append(q, r)

\* logging.Formatter('%(asctime)s: %(message)s').format(record)
format(r) == [asctime |-> r.created, message |-> r.msg]

\* the row display builds: record.levelname + ":" + msg + "\n", and the tag
\* it passes as insert's third argument
LineText(r) ==
    [levelname |-> r.levelname, asctime |-> format(r).asctime,
     message |-> format(r).message]

\* faulty variant: insert called without its third argument
LineTagsNone(r) == {}

LineTags(r) == {r.levelname}

\* scrolled_text.insert(tk.END, chars, tag): a no-op on a disabled widget
insert(t, st, line) == IF st = "normal" THEN Append(t, line) ELSE t

\* scrolled_text.delete("1.0", tk.END): a no-op on a disabled widget
delete(t, st) == IF st = "normal" THEN <<>> ELSE t

\* the "\n" a Tk text widget always ends with
FinalNewline == [levelname |-> "", asctime |-> 0, message |-> ""]

\* scrolled_text.get("1.0", tk.END): the rows, then the final newline
get(t) == [i \in 1..Len(t) |-> t[i].chars] \o <<FinalNewline>>

\* clipboard_append(string): appends to what the application's clipboard
\* already holds
clipboard_append(clip, string) == clip \o string

\* logger.log(level, msg) on the module's logger, as InputLogUi.log calls it
LoggerLog(levelno, msg, src) ==
    /\ logged' = logged + 1
    /\ IF isEnabledFor(levelno)
       THEN LET r == makeRecord(levelno, msg, logged + 1, src)
                hs == callHandlers("__main__")
            IN /\ log_queue' = IF "queue_handler" \in hs
                               THEN emit(log_queue, r) ELSE log_queue
               /\ emitted' = IF "queue_handler" \in hs
                             THEN Append(emitted, r) ELSE emitted
               /\ stderr' = IF "stderr" \in hs
                            THEN Append(stderr, <<"__main__", r.levelname, msg>>)
                            ELSE stderr
       ELSE UNCHANGED <<log_queue, emitted, stderr>>

(* ------------------------------- Init ---------------------------------- *)
\* the state when main() enters mainloop: App.__init__ has built the
\* disabled, empty text widget and scheduled the first poll_log_queue
Init ==
    /\ pc = "idle"
    /\ dialog = "none"
    /\ destroyed = FALSE
    /\ log_queue = <<>>
    /\ text = <<>>
    /\ state = "disabled"
    /\ clipboard = <<>>
    /\ timers = <<PollDelay>>
    /\ record = NoRecord
    /\ level_i = 0
    /\ log_msg = ""
    /\ stderr = <<>>
    /\ emitted = <<>>
    /\ cleared = <<>>
    /\ logged = 0
    /\ presses = 0
    /\ copies = 0
    /\ runs = 0
    /\ cur = [button |-> "", press |-> 0]

\* the event loop of the main window is free to dispatch a widget event
MainLoop == pc = "idle" /\ dialog = "none" /\ ~destroyed

(* --------------------------- InputLogUi -------------------------------- *)
\* one of the five level buttons: self.log(level, log_form.get())
PressLevel(b, m) ==
    /\ MainLoop
    /\ presses + copies < MaxPress
    /\ presses' = presses + 1
    /\ cur' = [button |-> b, press |-> presses + 1]
    /\ LoggerLog(ButtonLevel(b), m, [button |-> b, press |-> presses + 1])
    /\ UNCHANGED <<pc, dialog, destroyed, text, state, clipboard, timers,
                   record, level_i, log_msg, cleared, copies, runs>>

\* the ALL button: all_log(log_form.get()) starts its loop
PressAll(m) ==
    /\ MainLoop
    /\ presses + copies < MaxPress
    /\ presses' = presses + 1
    /\ cur' = [button |-> "ALL", press |-> presses + 1]
    /\ pc' = "all_log"
    /\ level_i' = 1
    /\ log_msg' = m
    /\ UNCHANGED <<dialog, destroyed, log_queue, text, state, clipboard,
                   timers, record, stderr, emitted, cleared, logged, copies,
                   runs>>

\* all_log: self.log(level, log_msg)
AllLogLog ==
    /\ pc = "all_log"
    /\ LoggerLog(log_levels[level_i], log_msg, cur)
    /\ pc' = "all_sleep"
    /\ UNCHANGED <<dialog, destroyed, text, state, clipboard, timers, record,
                   level_i, log_msg, cleared, presses, copies, runs, cur>>

\* all_log: sleep(1), then the next level or return
AllLogSleep ==
    /\ pc = "all_sleep"
    /\ Elapse(SleepMs)
    /\ IF level_i < Len(log_levels)
       THEN /\ level_i' = level_i + 1
            /\ pc' = "all_log"
            /\ UNCHANGED log_msg
       ELSE /\ level_i' = 0
            /\ pc' = "idle"
            /\ log_msg' = ""
    /\ UNCHANGED <<dialog, destroyed, text, state, clipboard, record, stderr,
                   emitted, cleared, logged, presses, copies, runs, cur>>

(* ------------------------------ time ----------------------------------- *)
\* the event loop waits until the next timer is due
Tick ==
    /\ pc = "idle"
    /\ ~destroyed
    /\ timers # <<>>
    /\ SeqMin(timers) > 0
    /\ Elapse(SeqMin(timers))
    /\ UNCHANGED <<pc, dialog, destroyed, text, state, clipboard, record,
                   level_i, log_msg, stderr, emitted, cleared, logged,
                   presses, copies, runs, cur>>

(* ------------------------------ ConsoleUi ------------------------------ *)
\* the event loop (of the window or of a message box) runs a due
\* poll_log_queue callback
PollStart ==
    /\ pc = "idle"
    /\ ~destroyed
    /\ \E i \in 1..Len(timers) :
          /\ timers[i] = 0
          /\ timers' = RemoveAt(timers, i)
    /\ pc' = "poll_get"
    /\ runs' = IF log_queue # <<>> THEN runs + 1 ELSE runs
    /\ UNCHANGED <<dialog, destroyed, log_queue, text, state, clipboard,
                   record, level_i, log_msg, stderr, emitted, cleared, logged,
                   presses, copies, cur>>

\* poll_log_queue: record = self.log_queue.get(block=False), or break
PollGet ==
    /\ pc = "poll_get"
    /\ IF log_queue = <<>>
       THEN /\ pc' = "poll_after"
            /\ UNCHANGED <<log_queue, record>>
       ELSE /\ record' = Head(log_queue)
            /\ log_queue' = Tail(log_queue)
            /\ pc' = "display_normal"
    /\ UNCHANGED <<dialog, destroyed, text, state, clipboard, timers,
                   level_i, log_msg, stderr, emitted, cleared, logged,
                   presses, copies, runs, cur>>

\* display: self.scrolled_text.configure(state="normal")
DisplayNormal ==
    /\ pc = "display_normal"
    /\ ~destroyed
    /\ state' = "normal"
    /\ pc' = "display_insert"
    /\ UNCHANGED <<dialog, destroyed, log_queue, text, clipboard, timers,
                   record, level_i, log_msg, stderr, emitted, cleared, logged,
                   presses, copies, runs, cur>>

\* display: msg = format(record); scrolled_text.insert(tk.END, ..., levelname)
DisplayInsert ==
    /\ pc = "display_insert"
    /\ ~destroyed
    /\ text' = insert(text, state,
                      [chars |-> LineText(record), tags |-> LineTags(record),
                       src |-> record.src, batch |-> runs])
    /\ pc' = "display_disabled"
    /\ UNCHANGED <<dialog, destroyed, log_queue, state, clipboard, timers,
                   record, level_i, log_msg, stderr, emitted, cleared, logged,
                   presses, copies, runs, cur>>

\* faulty variant: display does not set the widget back to 'disabled'
DisplayStaysNormal ==
    /\ pc = "display_disabled"
    /\ ~destroyed
    /\ record' = NoRecord
    /\ pc' = "poll_get"
    /\ UNCHANGED <<dialog, destroyed, log_queue, text, state, clipboard,
                   timers, level_i, log_msg, stderr, emitted, cleared, logged,
                   presses, copies, runs, cur>>

\* faulty variant: poll_log_queue takes one record per run (if in place of while)
DisplayThenReturn ==
    /\ pc = "display_disabled"
    /\ ~destroyed
    /\ state' = "disabled"
    /\ record' = NoRecord
    /\ pc' = "poll_after"
    /\ UNCHANGED <<dialog, destroyed, log_queue, text, clipboard, timers,
                   level_i, log_msg, stderr, emitted, cleared, logged,
                   presses, copies, runs, cur>>

\* display: configure(state='disabled'); yview(tk.END); back to the loop
DisplayDisabled ==
    /\ pc = "display_disabled"
    /\ ~destroyed
    /\ state' = "disabled"
    /\ record' = NoRecord
    /\ pc' = "poll_get"
    /\ UNCHANGED <<dialog, destroyed, log_queue, text, clipboard, timers,
                   level_i, log_msg, stderr, emitted, cleared, logged,
                   presses, copies, runs, cur>>

\* faulty variant: the callback rescheduled after 1000 ms
PollAfterSlow ==
    /\ pc = "poll_after"
    /\ ~destroyed
    /\ timers' = Append(timers, SleepMs)
    /\ pc' = "idle"
    /\ UNCHANGED <<dialog, destroyed, log_queue, text, state, clipboard,
                   record, level_i, log_msg, stderr, emitted, cleared, logged,
                   presses, copies, runs, cur>>

\* faulty variant: the callback rescheduled twice
PollAfterTwice ==
    /\ pc = "poll_after"
    /\ ~destroyed
    /\ timers' = timers \o <<PollDelay, PollDelay>>
    /\ pc' = "idle"
    /\ UNCHANGED <<dialog, destroyed, log_queue, text, state, clipboard,
                   record, level_i, log_msg, stderr, emitted, cleared, logged,
                   presses, copies, runs, cur>>

\* poll_log_queue: self.frame.after(100, self.poll_log_queue); return
PollAfter ==
    /\ pc = "poll_after"
    /\ ~destroyed
    /\ timers' = Append(timers, PollDelay)
    /\ pc' = "idle"
    /\ UNCHANGED <<dialog, destroyed, log_queue, text, state, clipboard,
                   record, level_i, log_msg, stderr, emitted, cleared, logged,
                   presses, copies, runs, cur>>

\* a press of a button whose command is copy_clipboard: clipboard_append of
\* the widget's text, then the showinfo box opens
PressCopy(b) ==
    /\ MainLoop
    /\ presses + copies < MaxPress
    /\ copies' = copies + 1
    /\ clipboard' = clipboard_append(clipboard, get(text))
    /\ dialog' = "showinfo"
    /\ UNCHANGED <<pc, destroyed, log_queue, text, state, timers, record,
                   level_i, log_msg, stderr, emitted, cleared, logged,
                   presses, runs, cur>>

\* the user dismisses the showinfo box: copy_clipboard returns
ShowinfoOk ==
    /\ pc = "idle"
    /\ ~destroyed
    /\ dialog = "showinfo"
    /\ dialog' = "none"
    /\ UNCHANGED <<pc, destroyed, log_queue, text, state, clipboard, timers,
                   record, level_i, log_msg, stderr, emitted, cleared, logged,
                   presses, copies, runs, cur>>

\* the 'Clear log' button of line 150: clear_log opens the askyesno box
PressClear ==
    /\ MainLoop
    /\ dialog' = "askyesno"
    /\ UNCHANGED <<pc, destroyed, log_queue, text, state, clipboard, timers,
                   record, level_i, log_msg, stderr, emitted, cleared, logged,
                   presses, copies, runs, cur>>

\* the user answers the askyesno box: clear_log goes on only on True
AskAnswer(yes) ==
    /\ pc = "idle"
    /\ ~destroyed
    /\ dialog = "askyesno"
    /\ dialog' = "none"
    /\ pc' = IF yes THEN "clear_normal" ELSE "idle"
    /\ UNCHANGED <<destroyed, log_queue, text, state, clipboard, timers,
                   record, level_i, log_msg, stderr, emitted, cleared, logged,
                   presses, copies, runs, cur>>

\* faulty variant: clear_log deletes without making the widget writable first
ClearNormalSkipped ==
    /\ pc = "clear_normal"
    /\ ~destroyed
    /\ pc' = "clear_delete"
    /\ UNCHANGED <<dialog, destroyed, log_queue, text, state, clipboard,
                   timers, record, level_i, log_msg, stderr, emitted, cleared,
                   logged, presses, copies, runs, cur>>

\* clear_log: self.scrolled_text.configure(state='normal')
ClearNormal ==
    /\ pc = "clear_normal"
    /\ ~destroyed
    /\ state' = "normal"
    /\ pc' = "clear_delete"
    /\ UNCHANGED <<dialog, destroyed, log_queue, text, clipboard, timers,
                   record, level_i, log_msg, stderr, emitted, cleared, logged,
                   presses, copies, runs, cur>>

\* clear_log: self.scrolled_text.delete("1.0", tk.END)
ClearDelete ==
    /\ pc = "clear_delete"
    /\ ~destroyed
    /\ text' = delete(text, state)
    /\ cleared' = IF text' = <<>> THEN cleared \o text ELSE cleared
    /\ pc' = "clear_disabled"
    /\ UNCHANGED <<dialog, destroyed, log_queue, state, clipboard, timers,
                   record, level_i, log_msg, stderr, emitted, logged,
                   presses, copies, runs, cur>>

\* clear_log: self.scrolled_text.configure(state='disabled'); return
ClearDisabled ==
    /\ pc = "clear_disabled"
    /\ ~destroyed
    /\ state' = "disabled"
    /\ pc' = "idle"
    /\ UNCHANGED <<dialog, destroyed, log_queue, text, clipboard, timers,
                   record, level_i, log_msg, stderr, emitted, cleared, logged,
                   presses, copies, runs, cur>>

(* --------------------------------- App --------------------------------- *)
QuitTriggers == {"WM_DELETE_WINDOW", "Control-q", "SIGINT"}

\* App.quit: logging.log(logging.INFO, "Quit application.") on the root
\* logger, then self.root.destroy().  The window manager's close request and
\* the key binding are dispatched by the event loop (the key binding only
\* while no message box holds the grab); the SIGINT handler runs between any
\* two statements of the thread, sleep(1) included.
quit(trigger) ==
    /\ ~destroyed
    /\ trigger = "WM_DELETE_WINDOW" => pc = "idle"
    /\ trigger = "Control-q" => pc = "idle" /\ dialog = "none"
    /\ LET hs == callHandlers("root")
           r == makeRecord(INFO, "Quit application.", logged + 1, cur)
       IN /\ log_queue' = IF "queue_handler" \in hs
                          THEN emit(log_queue, r) ELSE log_queue
          /\ emitted' = IF "queue_handler" \in hs
                        THEN Append(emitted, r) ELSE emitted
          /\ stderr' = IF "stderr" \in hs
                       THEN Append(stderr, <<"root", "INFO", "Quit application.">>)
                       ELSE stderr
    /\ destroyed' = TRUE
    /\ UNCHANGED <<pc, dialog, text, state, clipboard, timers, record,
                   level_i, log_msg, cleared, logged, presses, copies, runs,
                   cur>>

\* statements that call into the destroyed widget tree raise TclError, which
\* ends the callback
WidgetStatements ==
    {"display_normal", "display_insert", "display_disabled", "poll_after",
     "clear_normal", "clear_delete", "clear_disabled"}

TclError ==
    /\ destroyed
    /\ pc \in WidgetStatements
    /\ pc' = "idle"
    /\ record' = NoRecord
    /\ UNCHANGED <<dialog, destroyed, log_queue, text, state, clipboard,
                   timers, level_i, log_msg, stderr, emitted, cleared, logged,
                   presses, copies, runs, cur>>

\* destroying the root destroys an open message box: the suspended
\* copy_clipboard or clear_log ends without touching the widget
DialogDestroyed ==
    /\ destroyed
    /\ pc = "idle"
    /\ dialog # "none"
    /\ dialog' = "none"
    /\ UNCHANGED <<pc, destroyed, log_queue, text, state, clipboard, timers,
                   record, level_i, log_msg, stderr, emitted, cleared, logged,
                   presses, copies, runs, cur>>

\* the buttons whose command is copy_clipboard: 'Clipboard Copy' of both
\* LogUtilsUi instances and the 'Clear log' of the first one
CopyButtons == {"Clipboard Copy", "Clipboard Copy (first)", "Clear log (first)"}

Next ==
    \/ \E b \in LevelButtons, m \in Msgs : PressLevel(b, m)
    \/ \E m \in Msgs : PressAll(m)
    \/ AllLogLog
    \/ AllLogSleep
    \/ Tick
    \/ PollStart
    \/ PollGet
    \/ DisplayNormal
    \/ DisplayInsert
    \/ DisplayDisabled
    \/ PollAfter
    \/ \E b \in CopyButtons : PressCopy(b)
    \/ ShowinfoOk
    \/ PressClear
    \/ \E yes \in BOOLEAN : AskAnswer(yes)
    \/ ClearNormal
    \/ ClearDelete
    \/ ClearDisabled
    \/ \E t \in QuitTriggers : quit(t)
    \/ TclError
    \/ DialogDestroyed

Spec == Init /\ [][Next]_vars

\* the scheduling the code guarantees: a callback that has started runs to
\* its end, time passes, and the event loop runs a timer callback that is due
Fairness ==
    /\ WF_vars(AllLogLog) /\ WF_vars(AllLogSleep)
    /\ WF_vars(PollGet) /\ WF_vars(DisplayNormal) /\ WF_vars(DisplayInsert)
    /\ WF_vars(DisplayDisabled) /\ WF_vars(PollAfter)
    /\ WF_vars(ClearNormal) /\ WF_vars(ClearDelete) /\ WF_vars(ClearDisabled)
    /\ WF_vars(TclError)
    /\ SF_vars(Tick) /\ SF_vars(PollStart)

FairSpec == Spec /\ Fairness

(* ------------------------- derived quantities -------------------------- *)
\* every line the console has shown, in order of insertion
shown == cleared \o text

PollStatements ==
    {"poll_get", "display_normal", "display_insert", "display_disabled",
     "poll_after"}

AllLogStatements == {"all_log", "all_sleep"}

\* the record poll_log_queue has taken from the queue and not yet inserted
inflight ==
    IF pc \in {"display_normal", "display_insert"} THEN <<record>> ELSE <<>>

RowsOf(lines) == [i \in 1..Len(lines) |-> lines[i].chars]
SrcOf(lines) == [i \in 1..Len(lines) |-> lines[i].src]
RecRows(recs) == [i \in 1..Len(recs) |-> LineText(recs[i])]
RecSrc(recs) == [i \in 1..Len(recs) |-> recs[i].src]

\* the k-th logger.log call has been rendered
Displayed(k) == \E i \in 1..Len(shown) : shown[i].chars.asctime = k

\* the most records MaxPress presses can produce
MaxRecords == MaxPress * Len(log_levels)

(* ------------------------------- claims -------------------------------- *)
\* the level name the claims give for each button
ClaimedLevel(b) ==
    CASE b = "DEBUG" -> "DEBUG"
      [] b = "INFO" -> "INFO"
      [] b = "WARN" -> "WARNING"
      [] b = "ERROR" -> "ERROR"
      [] b = "CRITICAL" -> "CRITICAL"

\* the order the claims give for the records of ALL
ClaimedOrder == <<"DEBUG", "INFO", "WARNING", "ERROR", "CRITICAL">>

\* C1: with the window open and the poll timer firing, every logger.log call
\* made by the input form, whatever its level, is eventually rendered in the
\* console.
C1_EveryRecordDisplayed ==
    \A k \in 1..MaxRecords : (logged >= k) ~> (destroyed \/ Displayed(k))

\* C1 witness: records of all five levels have been rendered, a DEBUG one
\* among them, while the window is open.
C1_Witness ==
    /\ ~destroyed
    /\ logged >= 5
    /\ \A k \in 1..5 : Displayed(k)
    /\ \E i \in 1..Len(shown) : shown[i].chars.levelname = "DEBUG"

\* C2: while the window exists, the records emitted so far are, in emission
\* order, the lines removed by confirmed clears, then the lines in the
\* console, then the record poll_log_queue is holding (if any), then the
\* records still queued: nothing is lost, duplicated, fabricated or reordered.
C2_Conservation ==
    ~destroyed =>
        /\ RecRows(emitted)
             = RowsOf(shown) \o RecRows(inflight) \o RecRows(log_queue)
        /\ RecSrc(emitted)
             = SrcOf(shown) \o RecSrc(inflight) \o RecSrc(log_queue)

\* C2 witness: cleared lines, console lines and queued records coexist
\* (poll_log_queue is between two records of an ALL press).
C2_Witness ==
    /\ ~destroyed
    /\ pc = "poll_get"
    /\ cleared # <<>>
    /\ text # <<>>
    /\ log_queue # <<>>

\* C3 as stated: no record stays queued for longer than one polling period.
C3_Original == \A i \in 1..Len(log_queue) : log_queue[i].age <= PollDelay

\* the records of an ALL press that are queued
QueuedAll == {j \in 1..Len(log_queue) : log_queue[j].src.button = "ALL"}

\* C3 amended: a queued record has waited at most one polling period plus
\* one second for every record of an ALL press queued with it (all_log
\* sleeps one second after each record while the event loop is blocked), and
\* the run of poll_log_queue that follows takes every queued record.
C3_Amended ==
    /\ \A i \in 1..Len(log_queue) :
          log_queue[i].age <= PollDelay + SleepMs * Cardinality(QueuedAll)
    /\ pc = "poll_after" => log_queue = <<>>

\* C3 witness: the first record of an ALL press has waited five seconds.
C3_Witness ==
    /\ pc = "idle"
    /\ ~destroyed
    /\ log_queue # <<>>
    /\ log_queue[1].src.button = "ALL"
    /\ log_queue[1].age = SleepMs * Len(log_levels)

\* C4: every console line carries exactly one tag, the level name of its
\* record, which is the level of the button that produced it, and every one
\* of the five level names has a configured tag.
C4_Tags ==
    /\ \A i \in 1..Len(shown) :
          /\ Cardinality(shown[i].tags) = 1
          /\ shown[i].tags = {shown[i].chars.levelname}
          /\ shown[i].tags \subseteq tag_config
          /\ shown[i].src.button \in LevelButtons =>
                shown[i].chars.levelname = ClaimedLevel(shown[i].src.button)
          /\ shown[i].src.button = "ALL" =>
                \E k \in 1..Len(ClaimedOrder) :
                    shown[i].chars.levelname = ClaimedOrder[k]
    /\ \A k \in 1..Len(ClaimedOrder) : ClaimedOrder[k] \in tag_config

\* C4 witness: a line produced by the WARN button is in the console.
C4_Witness ==
    \E i \in 1..Len(text) :
        text[i].src.button = "WARN" /\ text[i].tags = {"WARNING"}

C6_Claim ==
    [][ copies' = copies + 1 =>
          /\ clipboard' = get(text)
          /\ text' = text
          /\ log_queue' = log_queue ]_vars

\* the lines of press p among a sequence of lines
LinesOfPress(lines, p) ==
    SelectSeq(lines, LAMBDA l : l.src.press = p)

\* the five rows one press of ALL must produce, inserted by one run
AllRows(lines) ==
    /\ Len(lines) = Len(ClaimedOrder)
    /\ \A k \in 1..Len(lines) :
          /\ lines[k].chars.levelname = ClaimedOrder[k]
          /\ lines[k].chars.message = lines[1].chars.message
          /\ lines[k].batch = lines[1].batch

\* the number of records all_log has logged so far in this call
AllLogDone == IF pc = "all_log" THEN level_i - 1 ELSE level_i

\* C7: while all_log runs, the records it has logged so far are the tail of
\* the queue, in the order DEBUG, INFO, WARNING, ERROR, CRITICAL and with
\* its message, and none of them is displayed; once displayed (the window
\* being open and no run of poll_log_queue in progress), the records of an
\* ALL press are five consecutive lines in that order, of one message,
\* inserted by one run of poll_log_queue, and none is left in the queue.
C7_AllTogether ==
    /\ pc \in AllLogStatements =>
          /\ Len(log_queue) >= AllLogDone
          /\ \A k \in 1..AllLogDone :
                LET r == log_queue[Len(log_queue) - AllLogDone + k]
                IN /\ r.levelname = ClaimedOrder[k]
                   /\ r.msg = log_msg
                   /\ r.src = cur
          /\ LinesOfPress(shown, cur.press) = <<>>
    /\ (~destroyed /\ pc \notin PollStatements) =>
          \A i \in 1..Len(shown) :
              shown[i].src.button = "ALL" =>
                  /\ AllRows(LinesOfPress(shown, shown[i].src.press))
                  /\ \A j \in 1..Len(log_queue) :
                        log_queue[j].src.press # shown[i].src.press
    /\ \A i, j \in 1..Len(shown) :
          (shown[i].src.press = shown[j].src.press /\ i <= j) =>
              /\ shown[i].batch = shown[j].batch
              /\ \A k \in i..j : shown[k].src.press = shown[i].src.press

\* C7 witness: the five lines of one ALL press are in the console behind the
\* line of an earlier press, put there by the same run.
C7_Witness ==
    /\ pc = "idle"
    /\ ~destroyed
    /\ Len(text) = 6
    /\ text[1].src.button # "ALL"
    /\ text[2].src.button = "ALL"
    /\ text[1].batch = text[6].batch
    /\ text[1].chars.message # text[2].chars.message

\* C8: while the window exists the text widget is 'normal' exactly between
\* configure(state="normal") and configure(state='disabled') of display and
\* of a confirmed clear_log, and 'disabled' everywhere else, the event loop
\* included.
C8_ReadOnly ==
    ~destroyed =>
        /\ state \in {"normal", "disabled"}
        /\ state = "normal" <=>
              pc \in {"display_insert", "display_disabled",
                      "clear_delete", "clear_disabled"}
        /\ pc = "idle" => state = "disabled"

\* C8 witness: the widget is writable inside display.
C8_Witness == pc = "display_insert" /\ state = "normal" /\ ~destroyed

\* C9: while the window exists exactly one poll_log_queue callback is
\* scheduled or running; a run leaves its loop only on an empty queue,
\* schedules exactly one callback as its last statement, and ends.
C9_SingleTimer ==
    /\ [](~destroyed =>
            /\ Len(timers) + (IF pc \in PollStatements THEN 1 ELSE 0) = 1
            /\ pc = "poll_after" => log_queue = <<>>)
    /\ [][ /\ (pc = "poll_after" /\ ~destroyed /\ ~destroyed') =>
                 (pc' = "idle" /\ Len(timers') = Len(timers) + 1)
           /\ (Len(timers') > Len(timers)) => pc = "poll_after"
         ]_vars
    /\ (pc \in PollStatements) ~> (pc = "idle")

\* C9 witness: a run that displayed a record is about to reschedule itself.
C9_Witness ==
    /\ pc = "poll_after"
    /\ ~destroyed
    /\ timers = <<>>
    /\ text # <<>>

\* C10: every quit trigger runs App.quit, which logs on the root logger only
\* (nothing enters the console queue) and destroys the window; from then on
\* no line is displayed, the window stays destroyed, and once control is
\* back in the main loop nothing runs any more.
C10_Quit ==
    /\ [](\A t \in QuitTriggers :
            (~destroyed /\ pc = "idle" /\ dialog = "none") => ENABLED quit(t))
    /\ [][ /\ (~destroyed /\ destroyed') =>
                 /\ log_queue' = log_queue
                 /\ emitted' = emitted
                 /\ stderr' = Append(stderr, <<"root", "INFO", "Quit application.">>)
           /\ destroyed => (destroyed' /\ text' = text /\ cleared' = cleared)
           /\ ~(destroyed /\ pc = "idle" /\ dialog = "none")
         ]_vars

\* C10 witness: the window was destroyed while a record was still queued and
\* the thread is back in the ended main loop.
C10_Witness ==
    /\ destroyed
    /\ pc = "idle"
    /\ dialog = "none"
    /\ log_queue # <<>>
    /\ text # <<>>

====
